---- MODULE Spec2Model ----
(***************************************************************************)
(* Model of localCache/cacheDataLocally.py (class AssetGenerator): the     *)
(* manifest fetch, URL extraction, per-URL download with retry, in-place   *)
(* URL -> filename rewriting, and promotion of the staging directory.      *)
(*                                                                         *)
(* Text is a sequence of tokens.  Every token is one character, except     *)
(*   "H"  the seven characters  http://                                    *)
(*   "D"  the nine characters   data.json                                  *)
(*   "Q"  the double quote                                                 *)
(***************************************************************************)
EXTENDS Integers, Sequences, FiniteSets, TLC

\* ------------------------------------------------------------------ bounds
MaxItems == 2          \* strings in a served manifest (a JSON array of strings)
MaxRetries == 1        \* numRetries is 0 or MaxRetries
RecursionLimit == 3    \* nested downloadFile frames the interpreter allows
MaxFaults == 3         \* transport failures the network shows in one behaviour
MaxRuns == 2           \* consecutive runs of the script
MaxTextLen == 4        \* tokens of a text given to the URL extractor alone
MaxBlockSize == 2      \* blocksize urlretrieve passes to the progress callback
MaxTotalSize == 6      \* totalsize it passes when the server states a length
MaxBlocks == 4         \* highest count it passes
MaxDirLen == 4         \* tokens of the directory part of a URL given to parseUrl

\* ------------------------------------------------------------------ values
\* Python's None: as a missing Content-Length header, and as a return value.
None == -1
NoResult == <<>>
NoFailure == [kind |-> "none", url |-> <<>>, code |-> 0]
DataJson == <<"D">>
ApiUrl == <<"H", "a", "p", "i">>

\* ------------------------------------------------------------------ text
\* The character class of linkRegex: letters, digits, the range $-_ (which
\* holds / : \ [ ] , and the rest of 0x24..0x5F), and ! * ( ).
GrammarChars == {"H", "D", "/", "x", "y", "\\", "[", "]", ","}

\* Variant: the quantifier is lazy, a match ends after its first character.
RunEndLazy(text, i) ==
  IF i + 1 <= Len(text) /\ text[i + 1] \in GrammarChars THEN i + 1 ELSE i

RECURSIVE RunEnd(_, _)
\* Last index of the maximal run of grammar characters that starts at i.
RunEnd(text, i) ==
  IF i + 1 <= Len(text) /\ text[i + 1] \in GrammarChars
  THEN RunEnd(text, i + 1)
  ELSE i

RECURSIVE FindAllFrom(_, _)
\* re.findall(linkRegex, text): the non-overlapping matches, left to right.
FindAllFrom(text, i) ==
  IF i > Len(text) THEN <<>>
  ELSE IF text[i] = "H" /\ RunEnd(text, i) > i
       THEN <<SubSeq(text, i, RunEnd(text, i))>> \o FindAllFrom(text, RunEnd(text, i) + 1)
       ELSE FindAllFrom(text, i + 1)

FindAll(text) == FindAllFrom(text, 1)

RECURSIVE RStrip(_)
\* url.rstrip("\\")
RStrip(url) ==
  IF Len(url) > 0 /\ url[Len(url)] = "\\"
  THEN RStrip(SubSeq(url, 1, Len(url) - 1))
  ELSE url

RECURSIVE LastSlash(_, _)
\* Index of the last token of s, at or before i, that ends in "/"; 0 if none.
LastSlash(s, i) ==
  IF i = 0 THEN 0
  ELSE IF s[i] \in {"/", "H"} THEN i
  ELSE LastSlash(s, i - 1)

\* urlparse(url).path.split("/")[-1]: the text after the last "/" of the path;
\* the path is empty when nothing after the scheme's "//" holds a "/".
Filename(url) ==
  LET rest == IF Len(url) > 0 THEN Tail(url) ELSE <<>>
      k == LastSlash(rest, Len(rest))
  IN IF k = 0 THEN <<>> ELSE SubSeq(rest, k + 1, Len(rest))

IsAt(text, i, pat) ==
  /\ i + Len(pat) - 1 <= Len(text)
  /\ SubSeq(text, i, i + Len(pat) - 1) = pat

RECURSIVE ReplaceFrom(_, _, _, _)
ReplaceFrom(text, i, old, new) ==
  IF i > Len(text) THEN <<>>
  ELSE IF IsAt(text, i, old)
       THEN new \o ReplaceFrom(text, i + Len(old), old, new)
       ELSE <<text[i]>> \o ReplaceFrom(text, i + 1, old, new)

\* text.replace(old, new) for a non-empty old: every occurrence, left to right.
Replace(text, old, new) == ReplaceFrom(text, 1, old, new)

\* ------------------------------------------------------------------ JSON
RECURSIVE Escape(_)
\* The body of a JSON string literal as json.dumps writes it.
Escape(s) ==
  IF s = <<>> THEN <<>>
  ELSE (IF Head(s) \in {"\\", "Q"} THEN <<"\\", Head(s)>> ELSE <<Head(s)>>)
       \o Escape(Tail(s))

RECURSIVE Serialize(_, _)
Serialize(items, sep) ==
  IF items = <<>> THEN <<>>
  ELSE <<"Q">> \o Escape(Head(items)) \o <<"Q">>
       \o (IF Len(items) > 1 THEN sep ELSE <<>>)
       \o Serialize(Tail(items), sep)

\* json.dumps(obj) of a list of strings: items separated by a comma and a space.
JsonDumps(items) == <<"[">> \o Serialize(items, <<",", " ">>) \o <<"]">>

\* The same document as a server that minifies its output sends it.
Minified(items) == <<"[">> \o Serialize(items, <<",">>) \o <<"]">>

ParseError == [ok |-> FALSE, val |-> <<>>, next |-> 0]

RECURSIVE SkipWs(_, _)
SkipWs(raw, i) ==
  IF i <= Len(raw) /\ raw[i] = " " THEN SkipWs(raw, i + 1) ELSE i

RECURSIVE ReadStr(_, _, _)
\* Reads a string body from raw[i] up to its closing quote.
ReadStr(raw, i, acc) ==
  IF i > Len(raw) THEN ParseError
  ELSE IF raw[i] = "Q" THEN [ok |-> TRUE, val |-> acc, next |-> i + 1]
  ELSE IF raw[i] = "\\"
       THEN IF i + 1 <= Len(raw) /\ raw[i + 1] \in {"\\", "Q", "/"}
            THEN ReadStr(raw, i + 2, Append(acc, raw[i + 1]))
            ELSE ParseError
  ELSE ReadStr(raw, i + 1, Append(acc, raw[i]))

RECURSIVE ReadElems(_, _, _)
\* Reads  "s" (, "s")* ]  from raw[i]; acc holds the strings read so far.
ReadElems(raw, i, acc) ==
  LET j == SkipWs(raw, i) IN
  IF j > Len(raw) \/ raw[j] # "Q" THEN ParseError
  ELSE LET s == ReadStr(raw, j + 1, <<>>) IN
       IF ~s.ok THEN ParseError
       ELSE LET k == SkipWs(raw, s.next) IN
            IF k > Len(raw) THEN ParseError
            ELSE IF raw[k] = "]"
                 THEN [ok |-> TRUE, val |-> Append(acc, s.val), next |-> k + 1]
            ELSE IF raw[k] = ","
                 THEN ReadElems(raw, k + 1, Append(acc, s.val))
            ELSE ParseError

\* Variant: a document that cannot be parsed is taken for the empty list.
JsonLoadsLenient(raw) == [ok |-> TRUE, val |-> <<>>, next |-> Len(raw) + 1]

\* json.loads(raw) for a document that is a list of strings; ok = FALSE where
\* json.loads raises.
JsonLoads(raw) ==
  LET i == SkipWs(raw, 1) IN
  IF i > Len(raw) \/ raw[i] # "[" THEN ParseError
  ELSE LET j == SkipWs(raw, i + 1)
           r == IF j <= Len(raw) /\ raw[j] = "]"
                THEN [ok |-> TRUE, val |-> <<>>, next |-> j + 1]
                ELSE ReadElems(raw, j, <<>>)
       IN IF r.ok /\ SkipWs(raw, r.next) > Len(raw) THEN r ELSE ParseError

\* ------------------------------------------------------------------ inputs
\* String values a served manifest may hold: asset URLs, one a prefix of
\* another and two with the same last path segment.
ManifestStrings ==
  { <<"H", "/", "x">>,
    <<"H", "/", "x", "/", "y">>,
    <<"H", "y", "/", "x">> }

RECURSIVE SeqsUpTo(_, _)
\* The sequences over S of length at most n.
SeqsUpTo(S, n) ==
  IF n = 0 THEN {<<>>}
  ELSE LET shorter == SeqsUpTo(S, n - 1)
       IN shorter \cup {Append(q, e) : q \in {r \in shorter : Len(r) = n - 1}, e \in S}

\* What the server at apiURL may send: a minified JSON list of strings, or a
\* document cut off before its end.
ServedDocs ==
  {Minified(items) : items \in SeqsUpTo(ManifestStrings, MaxItems)}
    \cup {<<"[", "Q", "H", "/", "x">>}

\* Content-Length the server states for a URL when it states one.
ContentLength(url) == 10 * Len(url)

\* The URLs a server may answer without a Content-Length header.
MayLackLength == {ApiUrl, <<"H", "/", "x">>}

\* What a GET of url delivers.
ServedAt(doc, url) ==
  IF url = ApiUrl THEN [kind |-> "text", body |-> doc]
  ELSE [kind |-> "asset", body |-> url]

\* ------------------------------------------------------------------ files
NoStaging == [exists |-> FALSE, files |-> {}]
NoDest == [exists |-> FALSE, files |-> {}, subs |-> {}]
OldFile == [name |-> <<"o", "l", "d">>, content |-> [kind |-> "stale", body |-> <<>>]]
StaleDest == [exists |-> TRUE, files |-> {OldFile}, subs |-> {}]
\* A destination that holds a directory named like the destination itself.
NestedDest ==
  [exists |-> TRUE, files |-> {OldFile}, subs |-> {[name |-> "dest", files |-> {OldFile}]}]

\* open(path, 'w').write(content): creates or overwrites the file called name.
WriteFile(files, name, content) ==
  {f \in files : f.name # name} \cup {[name |-> name, content |-> content]}

HasSub(dir, name) == \E s \in dir.subs : s.name = name

\* ------------------------------------------------------------------ state
VARIABLES
  served,       \* the document the server sends for apiURL
  lengthless,   \* the URLs the server answers without a Content-Length header
  numRetries,   \* self.numRetries
  destAbs,      \* TRUE when localCacheDirectory is an absolute path
  dest,         \* the directory at self.destination
  temp,         \* the directory at self.tempFolder
  pc,           \* position of the run inside __init__
  runNo,        \* runs started so far
  jsonString,   \* self.jsonString
  urls,         \* the list re.findall returned in getFilesFromJson
  idx,          \* position of the for loop in urls
  depth,        \* downloadFile frames on the stack for the current fetch
  retryNum,     \* retryNum of the innermost downloadFile frame
  numFiles,     \* self.numFiles
  totalBytes,   \* self.totalBytes
  failure,      \* the exception that ended the run
  faults,       \* transport failures shown so far
  log,          \* this run's urlretrieve calls: url, outcome, and the
                \* Content-Length header (ok) or the status code (HTTPError)
  destAtStart,  \* dest as the current run found it
  prevOK,       \* the run before the current one reached its end
  cb,           \* one transfer as downloadProgress sees it: its arguments,
                \* what it wrote to stdout, whether it raised
  px            \* one call of parseUrl (uploads-stripping variant)

vars == <<served, lengthless, numRetries, destAbs, dest, temp, pc, runNo, jsonString, urls,
          idx, depth, retryNum, numFiles, totalBytes, failure, faults, log,
          destAtStart, prevOK, cb, px>>

\* downloadProgress and parseUrl before any call.
NoCallback == [blocksize |-> 0, totalsize |-> 0, count |-> 0, out |-> <<>>,
               raised |-> FALSE, finished |-> FALSE]
NoParse == [host |-> "", dir |-> <<>>, step |-> "none", staged |-> <<>>, ref |-> <<>>]

Init ==
  /\ served \in ServedDocs
  /\ lengthless \in SUBSET MayLackLength
  /\ numRetries \in {0, MaxRetries}
  /\ destAbs \in BOOLEAN
  /\ dest \in {NoDest, StaleDest, NestedDest}
  /\ temp = NoStaging
  /\ pc = "idle"
  /\ runNo = 0
  /\ jsonString = <<>>
  /\ urls = <<>>
  /\ idx = 0
  /\ depth = 0
  /\ retryNum = 0
  /\ numFiles = 0
  /\ totalBytes = 0
  /\ failure = NoFailure
  /\ faults = 0
  /\ log = <<>>
  /\ destAtStart = dest
  /\ prevOK = FALSE
  /\ cb = NoCallback
  /\ px = NoParse

\* The URL and the filename of the downloadFile call in progress.
CurUrl == IF pc = "loadJSON" THEN ApiUrl ELSE RStrip(urls[idx])
CurName == IF pc = "loadJSON" THEN DataJson ELSE Filename(CurUrl)
Fetching == pc = "loadJSON" \/ (pc = "getFiles" /\ idx <= Len(urls))

\* __init__ up to the first urlretrieve call.
StartRun ==
  /\ pc \in {"idle", "done", "failed"}
  /\ runNo < MaxRuns
  /\ runNo' = runNo + 1
  /\ prevOK' = (pc = "done")
  /\ destAtStart' = dest
  /\ totalBytes' = 0
  /\ numFiles' = 0
  /\ temp' = IF temp.exists THEN temp ELSE [exists |-> TRUE, files |-> {}]
  /\ pc' = "loadJSON"
  /\ depth' = 1
  /\ retryNum' = 0
  /\ jsonString' = <<>>
  /\ urls' = <<>>
  /\ idx' = 0
  /\ failure' = NoFailure
  /\ log' = <<>>
  /\ UNCHANGED <<cb, px, served, lengthless, numRetries, destAbs, dest, faults>>

\* Variant: the error is reported but the run goes on to its final steps.
AfterRaiseSwallowed(at) == "promote"

\* An exception nothing catches leaves __init__: the run is over.
AfterRaise(at) == "failed"

Raise(kind, url, code) ==
  /\ failure' = [kind |-> kind, url |-> url, code |-> code]
  /\ pc' = AfterRaise(pc)
  /\ UNCHANGED <<jsonString, urls, idx, depth, retryNum, numFiles, totalBytes, temp>>

\* Variant: the URLError clause comes first and takes HTTPError (its subclass).
HandlerUrlErrorFirst(exc) == "transport"

\* The except clause that takes an exception urlretrieve raised.
Handler(exc) == IF exc = "HTTPError" THEN "http" ELSE "transport"

\* The retryNum argument of the recursive call.
RetryArg(r) == r

\* What urlretrieve may raise: HTTPError with a status code, or URLError.
Exceptions ==
  { [exc |-> "HTTPError", code |-> 404],
    [exc |-> "HTTPError", code |-> 500],
    [exc |-> "URLError", code |-> 0] }

\* urlretrieve raises: HTTPError (a status code) or URLError (transport).
AttemptRaises(exc, code) ==
  /\ Fetching
  /\ exc = "URLError" => faults < MaxFaults
  /\ faults' = IF exc = "URLError" THEN faults + 1 ELSE faults
  /\ log' = Append(log, [url |-> CurUrl, outcome |-> exc, info |-> code])
  /\ IF Handler(exc) = "http"
     THEN Raise("http", CurUrl, code)
     ELSE IF retryNum < numRetries
          THEN IF depth < RecursionLimit
               THEN /\ depth' = depth + 1
                    /\ retryNum' = RetryArg(retryNum)
                    /\ UNCHANGED <<pc, failure, jsonString, urls, idx, numFiles,
                                   totalBytes, temp>>
               ELSE Raise("RecursionError", CurUrl, 0)
          ELSE Raise("transport", CurUrl, 0)
  /\ UNCHANGED <<cb, px, served, lengthless, numRetries, destAbs, dest, runNo, destAtStart, prevOK>>

\* What the outermost downloadFile frame returns after a successful transfer
\* in the frame at depth d: the value of a recursive call is dropped.
Returned(d, pair) == IF d = 1 THEN pair ELSE NoResult

\* Variant: every frame of the recursion counts the file as it returns.
CountFilePerFrame(n, d) == n + d

\* self.numFiles after a successful transfer in the frame at depth d.
CountFile(n, d) == n + 1

\* Variant: a transfer without Content-Length is counted as one byte.
CountBytesDefaultOne(n, header) == IF header = None THEN n + 1 ELSE n + header

\* self.totalBytes after a successful transfer with the given header.
CountBytes(n, header) == IF header = None THEN n ELSE n + header

\* headers['Content-Length'] of the response to a GET of url.
HeaderOf(url) == IF url \in lengthless THEN None ELSE ContentLength(url)

\* urlretrieve succeeds; the run goes on to its next urlretrieve call.
AttemptSucceeds(header) ==
  /\ Fetching
  /\ log' = Append(log, [url |-> CurUrl,
                          outcome |-> IF CurName = <<>> THEN "IsADirectoryError" ELSE "ok",
                          info |-> header])
  /\ IF CurName = <<>>
     THEN Raise("IsADirectoryError", CurUrl, 0)
     ELSE LET written == WriteFile(temp.files, CurName, ServedAt(served, CurUrl))
              result == Returned(depth, <<CurName, header>>)
              parsed == JsonLoads(ServedAt(served, CurUrl).body)
          IN /\ numFiles' = CountFile(numFiles, depth)
             /\ totalBytes' = CountBytes(totalBytes, header)
             /\ temp' = [temp EXCEPT !.files = written]
             /\ IF pc = "loadJSON"
                THEN IF result = NoResult
                     THEN /\ failure' = [kind |-> "TypeError", url |-> CurUrl, code |-> 0]
                          /\ pc' = AfterRaise(pc)
                          /\ UNCHANGED <<jsonString, urls, idx, depth, retryNum>>
                     ELSE IF ~parsed.ok
                     THEN /\ failure' = [kind |-> "JSONDecodeError", url |-> CurUrl, code |-> 0]
                          /\ pc' = AfterRaise(pc)
                          /\ UNCHANGED <<jsonString, urls, idx, depth, retryNum>>
                     ELSE /\ jsonString' = JsonDumps(parsed.val)
                          /\ urls' = FindAll(JsonDumps(parsed.val))
                          /\ idx' = 1
                          /\ pc' = "getFiles"
                          /\ depth' = 1
                          /\ retryNum' = 0
                          /\ UNCHANGED failure
                ELSE /\ jsonString' = Replace(jsonString, CurUrl, CurName)
                     /\ idx' = idx + 1
                     /\ depth' = 1
                     /\ retryNum' = 0
                     /\ UNCHANGED <<pc, urls, failure>>
  /\ UNCHANGED <<cb, px, served, lengthless, numRetries, destAbs, dest, runNo, faults, destAtStart, prevOK>>

\* Variant: saveJson writes the manifest as the server sent it.
TextToSaveAsFetched(js) == served

\* The text saveJson writes, given self.jsonString.
TextToSave(js) == js

\* The for loop is over; saveJson writes self.jsonString to data.json.
SaveJson ==
  /\ pc = "getFiles"
  /\ idx > Len(urls)
  /\ temp' = [temp EXCEPT !.files =
                WriteFile(temp.files, DataJson, [kind |-> "text", body |-> TextToSave(jsonString)])]
  /\ pc' = "promote"
  /\ UNCHANGED <<cb, px, served, lengthless, numRetries, destAbs, dest, runNo, jsonString, urls, idx,
                 depth, retryNum, numFiles, totalBytes, failure, faults, log,
                 destAtStart, prevOK>>

\* os.path.join(self.destination, self.destination): the second path replaces
\* the first when it is absolute, and is appended to it otherwise.
StalePath(abs) == IF abs THEN "dest" ELSE "dest/dest"

\* shutil.rmtree of StalePath when os.path.exists says it is there.
AfterRmtree(abs, d) ==
  IF StalePath(abs) = "dest"
  THEN IF d.exists THEN NoDest ELSE d
  ELSE IF d.exists /\ HasSub(d, "dest")
       THEN [d EXCEPT !.subs = {s \in d.subs : s.name # "dest"}]
       ELSE d

\* shutil.move(self.tempFolder, self.destination): into an existing directory
\* as its entry "temp" (an error if there is one), else by renaming.
AfterMove(d, t) ==
  IF d.exists
  THEN IF HasSub(d, "temp")
       THEN [ok |-> FALSE, dest |-> d]
       ELSE [ok |-> TRUE,
             dest |-> [d EXCEPT !.subs = d.subs \cup {[name |-> "temp", files |-> t.files]}]]
  ELSE [ok |-> TRUE, dest |-> [exists |-> TRUE, files |-> t.files, subs |-> {}]]

\* The end of __init__: remove the stale destination, move staging there.
Promote ==
  /\ pc = "promote"
  /\ LET moved == AfterMove(AfterRmtree(destAbs, dest), temp)
     IN /\ dest' = moved.dest
        /\ IF moved.ok
           THEN /\ temp' = NoStaging
                /\ pc' = "done"
                /\ UNCHANGED failure
           ELSE /\ failure' = [kind |-> "shutil.Error", url |-> <<>>, code |-> 0]
                /\ pc' = AfterRaise(pc)
                /\ UNCHANGED temp
  /\ UNCHANGED <<cb, px, served, lengthless, numRetries, destAbs, runNo, jsonString, urls, idx, depth,
                 retryNum, numFiles, totalBytes, faults, log, destAtStart, prevOK>>

Next ==
  \/ StartRun
  \/ \E e \in Exceptions : AttemptRaises(e.exc, e.code)
  \/ AttemptSucceeds(HeaderOf(CurUrl))
  \/ SaveJson
  \/ Promote

Spec == Init /\ [][Next]_vars

\* ---------------------------------------------- manifests with clashing names
\* String values of a second family of manifests: a URL, a longer URL that it
\* is a prefix of and that has the same last path segment, and a URL whose
\* last path segment is data.json.
NamingStrings ==
  { <<"H", "/", "x">>,
    <<"H", "/", "x", "/", "x">>,
    <<"H", "/", "D">> }

NamingDocs ==
  {Minified(items) : items \in SeqsUpTo(NamingStrings, MaxItems)}
    \cup {<<"[", "Q", "H", "/", "x">>}

InitNaming ==
  /\ served \in NamingDocs
  /\ lengthless \in SUBSET MayLackLength
  /\ numRetries \in {0, MaxRetries}
  /\ destAbs \in BOOLEAN
  /\ dest \in {NoDest, StaleDest, NestedDest}
  /\ temp = NoStaging
  /\ pc = "idle"
  /\ runNo = 0
  /\ jsonString = <<>>
  /\ urls = <<>>
  /\ idx = 0
  /\ depth = 0
  /\ retryNum = 0
  /\ numFiles = 0
  /\ totalBytes = 0
  /\ failure = NoFailure
  /\ faults = 0
  /\ log = <<>>
  /\ destAtStart = dest
  /\ prevOK = FALSE
  /\ cb = NoCallback
  /\ px = NoParse

SpecNaming == InitNaming /\ [][Next]_vars

\* ------------------------------------------------- the extractor on its own
\* getFilesFromJson up to the rstrip of each URL, on any text: the tokens are
\* the scheme, a letter, a slash, a backslash and a double quote.
TextChars == {"H", "x", "/", "\\", "Q"}
Texts == SeqsUpTo(TextChars, MaxTextLen)

InitExtract ==
  /\ jsonString \in Texts
  /\ pc = "text"
  /\ urls = <<>>
  /\ idx = 0
  /\ served = <<>>
  /\ lengthless = {}
  /\ numRetries = 0
  /\ destAbs = FALSE
  /\ dest = NoDest
  /\ temp = NoStaging
  /\ runNo = 0
  /\ depth = 0
  /\ retryNum = 0
  /\ numFiles = 0
  /\ totalBytes = 0
  /\ failure = NoFailure
  /\ faults = 0
  /\ log = <<>>
  /\ destAtStart = NoDest
  /\ prevOK = FALSE
  /\ cb = NoCallback
  /\ px = NoParse

\* urls = re.findall(linkRegex, self.jsonString)
Extract ==
  /\ pc = "text"
  /\ urls' = FindAll(jsonString)
  /\ idx' = 1
  /\ pc' = "urls"
  /\ UNCHANGED <<cb, px, served, lengthless, numRetries, destAbs, dest, temp, runNo,
                 jsonString, depth, retryNum, numFiles, totalBytes, failure, faults,
                 log, destAtStart, prevOK>>

\* url = url.rstrip("\\") for the next URL of the loop.
StripUrl ==
  /\ pc = "urls"
  /\ idx <= Len(urls)
  /\ urls' = [urls EXCEPT ![idx] = RStrip(urls[idx])]
  /\ idx' = idx + 1
  /\ UNCHANGED <<cb, px, served, lengthless, numRetries, destAbs, dest, temp, runNo,
                 jsonString, pc, depth, retryNum, numFiles, totalBytes, failure,
                 faults, log, destAtStart, prevOK>>

NextExtract == Extract \/ StripUrl

SpecExtract == InitExtract /\ [][NextExtract]_vars

\* ------------------------------------------- the progress callback on its own
\* The variables of the run, which the callback and parseUrl leave alone.
runVars == <<served, lengthless, numRetries, destAbs, dest, temp, pc, runNo, jsonString,
             urls, idx, depth, retryNum, numFiles, totalBytes, failure, faults, log,
             destAtStart, prevOK>>

\* readsofar once it has been capped at totalsize.
ReadSoFar(count, blocksize, totalsize) ==
  IF count * blocksize > totalsize THEN totalsize ELSE count * blocksize

\* int(readsofar * 100 / totalsize) for totalsize # 0: the quotient cut off
\* towards zero; with a negative totalsize readsofar is negative as well.
Percent(readsofar, totalsize) ==
  IF totalsize > 0
  THEN (readsofar * 100) \div totalsize
  ELSE (-(readsofar * 100)) \div (-totalsize)

\* Variant: the completion message does not depend on totalsize.
ReportsCompletionAlways(totalsize) == TRUE

\* The condition of the elif that writes the completion message.
ReportsCompletion(totalsize) == totalsize # -1

\* What one call of downloadProgress writes to stdout (totalsize # 0).
Written(count, blocksize, totalsize) ==
  LET readsofar == ReadSoFar(count, blocksize, totalsize)
      percent == Percent(readsofar, totalsize)
  IN IF percent <= 99
     THEN <<[kind |-> "progress", bytes |-> readsofar, percent |-> percent]>>
     ELSE IF ReportsCompletion(totalsize)
          THEN <<[kind |-> "finished", bytes |-> totalsize, percent |-> percent]>>
          ELSE <<>>

\* A transfer begins: urlretrieve has the response headers; totalsize is the
\* Content-Length, or -1 when the server states none.
InitProgress ==
  /\ cb \in [blocksize : 1..MaxBlockSize, totalsize : (-1)..MaxTotalSize, count : {0},
             out : {<<>>}, raised : {FALSE}, finished : {FALSE}]
  /\ px = NoParse
  /\ served = <<>>
  /\ lengthless = {}
  /\ numRetries = 0
  /\ destAbs = FALSE
  /\ dest = NoDest
  /\ temp = NoStaging
  /\ pc = "transfer"
  /\ runNo = 0
  /\ jsonString = <<>>
  /\ urls = <<>>
  /\ idx = 0
  /\ depth = 0
  /\ retryNum = 0
  /\ numFiles = 0
  /\ totalBytes = 0
  /\ failure = NoFailure
  /\ faults = 0
  /\ log = <<>>
  /\ destAtStart = NoDest
  /\ prevOK = FALSE

\* urlretrieve calls reporthook(count, blocksize, totalsize): once before the
\* first block and once after every block read.
DownloadProgress ==
  /\ cb.blocksize > 0
  /\ ~cb.raised
  /\ ~cb.finished
  /\ cb.count <= MaxBlocks
  /\ cb' = IF cb.totalsize = 0
           THEN [cb EXCEPT !.raised = TRUE]
           ELSE [cb EXCEPT !.out = cb.out \o Written(cb.count, cb.blocksize, cb.totalsize),
                           !.count = cb.count + 1]
  /\ UNCHANGED <<runVars, px>>

\* The last block has been read and reported; urlretrieve returns.
TransferEnds ==
  /\ cb.blocksize > 0
  /\ ~cb.raised
  /\ ~cb.finished
  /\ cb.count >= 1
  /\ cb' = [cb EXCEPT !.finished = TRUE]
  /\ UNCHANGED <<runVars, px>>

NextProgress == DownloadProgress \/ TransferEnds

SpecProgress == InitProgress /\ [][NextProgress]_vars

\* ------------------------------------- parseUrl of the uploads-stripping variant
\* (src/cacheDataLocally.py.)  Tokens: "u" is the name uploads, "a" a letter,
\* "f" the filename of the asset, "h" the host of the uploads URL and "o"
\* another host.  --uploadDir is http://h/uploads.
UploadsDir == <<"H", "h", "/", "u">>
\* urlparse(args.uploadDir).path
UploadsPath == <<"/", "u">>
AssetName == <<"f">>

\* The directory part of a URL's path: empty, or a slash and what follows.
DirPaths == {d \in SeqsUpTo({"/", "u", "a"}, MaxDirLen) : d = <<>> \/ d[1] = "/"}
UrlOf(host, dir) == <<"H", host>> \o dir \o <<"/">> \o AssetName

RECURSIVE FirstAt(_, _, _)
\* Index of the first occurrence of pat in text at or after i; 0 if none.
FirstAt(text, pat, i) ==
  IF i + Len(pat) - 1 > Len(text) THEN 0
  ELSE IF IsAt(text, i, pat) THEN i
  ELSE FirstAt(text, pat, i + 1)

\* path.split(sep): has it an element [1], and which.
SplitSecond(path, sep) ==
  LET k == FirstAt(path, sep, 1) IN
  IF k = 0 THEN [ok |-> FALSE, val |-> <<>>]
  ELSE LET rest == SubSeq(path, k + Len(sep), Len(path))
           n == FirstAt(rest, sep, 1)
       IN [ok |-> TRUE, val |-> IF n = 0 THEN rest ELSE SubSeq(rest, 1, n - 1)]

\* The directory parseUrl downloads into, for the directory part dir of the
\* URL's path: relative to staging, or an absolute path where os.path.join
\* drops the staging folder; ok = FALSE where parseUrl raises IndexError.
StagedDir(dir) ==
  IF dir = UploadsPath THEN [ok |-> TRUE, abs |-> FALSE, rel |-> <<>>]
  ELSE LET piece == SplitSecond(dir, UploadsPath)
           cut == IF piece.val = <<>> THEN <<>> ELSE Tail(piece.val)
       IN IF ~piece.ok THEN [ok |-> FALSE, abs |-> FALSE, rel |-> <<>>]
          ELSE IF cut # <<>> /\ Head(cut) = "/"
               THEN [ok |-> TRUE, abs |-> TRUE, rel |-> cut]
               ELSE [ok |-> TRUE, abs |-> FALSE, rel |-> cut]

\* filedata.replace(self.uploadsDir, "") as it acts on one URL of data.json.
Reference(url) == Replace(url, UploadsDir, <<>>)

InitParseUrl ==
  /\ px \in [host : {"h", "o"}, dir : DirPaths, step : {"found"},
             staged : {<<>>}, ref : {<<>>}]
  /\ cb = NoCallback
  /\ served = <<>>
  /\ lengthless = {}
  /\ numRetries = 0
  /\ destAbs = FALSE
  /\ dest = NoDest
  /\ temp = NoStaging
  /\ pc = "parseUrl"
  /\ runNo = 0
  /\ jsonString = <<>>
  /\ urls = <<>>
  /\ idx = 0
  /\ depth = 0
  /\ retryNum = 0
  /\ numFiles = 0
  /\ totalBytes = 0
  /\ failure = NoFailure
  /\ faults = 0
  /\ log = <<>>
  /\ destAtStart = NoDest
  /\ prevOK = FALSE

\* parseUrl(url): the directory is computed and created, the file downloaded.
ParseUrl ==
  /\ px.step = "found"
  /\ LET d == StagedDir(px.dir) IN
       px' = IF ~d.ok THEN [px EXCEPT !.step = "IndexError"]
             ELSE [px EXCEPT !.step = IF d.abs THEN "outside" ELSE "staged",
                             !.staged = d.rel]
  /\ UNCHANGED <<runVars, cb>>

\* __init__ after the loop: data.json is saved and the uploads URL removed
\* from it.
StripUploads ==
  /\ px.step \in {"staged", "outside"}
  /\ px' = [px EXCEPT !.step = IF px.step = "staged" THEN "saved" ELSE "saved outside",
                      !.ref = Reference(UrlOf(px.host, px.dir))]
  /\ UNCHANGED <<runVars, cb>>

NextParseUrl == ParseUrl \/ StripUploads

SpecParseUrl == InitParseUrl /\ [][NextParseUrl]_vars

\* ------------------------------------------------------------------ claims
LastLog == log[Len(log)]
\* This step made one urlretrieve call with the given outcome.
Attempted(outcome) ==
  /\ Len(log') = Len(log) + 1
  /\ log'[Len(log')].outcome = outcome

\* C1: in a run in which a fetch (of the manifest or of an asset) ended in
\* failure, the destination directory is what it was when the run began.
FetchFailures == {"http", "transport", "RecursionError"}
C1_DestUnchangedOnFetchFailure ==
  failure.kind \in FetchFailures => dest = destAtStart

\* An asset fetch has failed in a second run, over the cache the first run promoted.
C1_Witness ==
  /\ pc = "failed"
  /\ failure.kind \in {"http", "transport"}
  /\ idx >= 1
  /\ runNo = 2
  /\ prevOK
  /\ dest.exists

\* C2: a fetch makes at most numRetries + 1 attempts: the frame in progress is
\* never deeper than numRetries + 1, and its retry counter is its depth - 1.
C2_AtMostNumRetriesRetries ==
  Fetching => (depth <= numRetries + 1 /\ retryNum = depth - 1)

\* C3: an attempt that gets an HTTP error status ends the run at once with an
\* error naming the URL and the status code, the counters unchanged; and a run
\* that has failed makes no further urlretrieve call.
C3_HttpErrorFailsAtOnce ==
  [][ /\ Attempted("HTTPError") =>
          /\ pc' = "failed"
          /\ failure' = [kind |-> "http", url |-> CurUrl, code |-> log'[Len(log')].info]
          /\ log'[Len(log')].url = CurUrl
          /\ numFiles' = numFiles
          /\ totalBytes' = totalBytes
      /\ (pc = "failed" /\ runNo' = runNo) => log' = log ]_vars

\* An HTTP error has come on an attempt that followed a transport failure of
\* the same URL.
C3_Witness ==
  /\ pc = "failed"
  /\ failure.kind = "http"
  /\ Len(log) >= 2
  /\ LastLog.outcome = "HTTPError"
  /\ log[Len(log) - 1].outcome = "URLError"
  /\ log[Len(log) - 1].url = LastLog.url

\* C4: while assets are fetched, a successful transfer (on a first attempt or
\* after transport failures) adds exactly 1 to numFiles and its Content-Length,
\* if any, to totalBytes; no other step of the fetch changes either counter.
C4_AssetCountedOnce ==
  [][ (pc = "getFiles" /\ runNo' = runNo) =>
        IF Attempted("ok") /\ CurName # <<>>
        THEN /\ numFiles' = numFiles + 1
             /\ totalBytes' = totalBytes
                  + (IF log'[Len(log')].info = None THEN 0 ELSE ContentLength(CurUrl))
        ELSE /\ numFiles' = numFiles
             /\ totalBytes' = totalBytes ]_vars

\* An asset has been transferred on the attempt after a transport failure.
C4_Witness ==
  /\ Len(log) >= 3
  /\ LastLog.outcome = "ok"
  /\ LastLog.url # ApiUrl
  /\ log[Len(log) - 1].outcome = "URLError"
  /\ log[Len(log) - 1].url = LastLog.url
  /\ numFiles = 2

\* C5: a manifest fetch whose transfer succeeded (on whatever attempt) hands
\* loadJSON the pair (filename, headers), so a well-formed manifest takes the
\* run on to URL extraction: it has not failed on the return value, and
\* self.jsonString is the parsed and re-serialised manifest.
C5_SuccessfulFetchReturnsPair ==
  ( /\ Len(log) > 0
    /\ LastLog.url = ApiUrl
    /\ LastLog.outcome = "ok"
    /\ JsonLoads(served).ok )
  => ( /\ failure.kind # "TypeError"
       /\ jsonString = JsonDumps(JsonLoads(served).val) )

\* The loop of getFilesFromJson as it acts on the text alone: one replace per
\* listed URL, in the order of the list.
RECURSIVE ReplaceInOrder(_, _)
ReplaceInOrder(text, us) ==
  IF us = <<>> THEN text
  ELSE ReplaceInOrder(Replace(text, RStrip(Head(us)), Filename(RStrip(Head(us)))),
                      Tail(us))

Occurs(text, pat) == \E i \in 1..Len(text) : IsAt(text, i, pat)
OkCount(u) ==
  Cardinality({i \in 1..Len(log) : log[i].url = u /\ log[i].outcome = "ok"})
LoopDone == pc \in {"promote", "done"}
ExtractedUrls == {RStrip(urls[i]) : i \in 1..Len(urls)}
\* The text self.jsonString held when getFilesFromJson began.
OriginalText == JsonDumps(JsonLoads(served).val)

\* C6: once the loop is over, every extracted URL has been transferred exactly
\* once however often it occurs, numFiles counts the manifest and one file per
\* distinct URL, and no occurrence of the URL is left in the text.
C6_OneDownloadPerDistinctUrl ==
  LoopDone =>
    /\ \A u \in ExtractedUrls : OkCount(u) = 1 /\ ~Occurs(jsonString, u)
    /\ numFiles = 1 + Cardinality(ExtractedUrls)

RECURSIVE RewrittenFrom(_, _)
\* text from position i on, each match of the extractor replaced by the
\* filename of the URL matched there (its stripped backslashes kept).
RewrittenFrom(text, i) ==
  IF i > Len(text) THEN <<>>
  ELSE IF text[i] = "H" /\ RunEnd(text, i) > i
       THEN LET m == SubSeq(text, i, RunEnd(text, i))
                u == RStrip(m)
            IN Filename(u) \o SubSeq(m, Len(u) + 1, Len(m))
                 \o RewrittenFrom(text, RunEnd(text, i) + 1)
       ELSE <<text[i]>> \o RewrittenFrom(text, i + 1)

\* C7: once the loop is over, the text is the original text with each
\* extracted occurrence of a URL replaced by that URL's own filename and every
\* other character kept, and no extracted URL is left in it.
C7_EachUrlReplacedByOwnFilename ==
  LoopDone =>
    /\ jsonString = RewrittenFrom(OriginalText, 1)
    /\ \A u \in ExtractedUrls : ~Occurs(jsonString, u)

Perms(n) == {f \in [1..n -> 1..n] : \A i, j \in 1..n : i # j => f[i] # f[j]}
Permuted(us, f) == [i \in 1..Len(us) |-> us[f[i]]]
LongestFirst(us) == \A i, j \in 1..Len(us) : i < j => Len(us[i]) >= Len(us[j])

\* C8: for the text and the URL list the loop starts from, replacing in any
\* order of the list gives the text that replacing longest-URL-first gives.
C8_OrderOfReplacementIrrelevant ==
  (pc = "getFiles" /\ idx = 1) =>
    \A f, g \in Perms(Len(urls)) :
      LongestFirst(Permuted(urls, g)) =>
        ReplaceInOrder(jsonString, Permuted(urls, f))
          = ReplaceInOrder(jsonString, Permuted(urls, g))

\* C9: promotion over an existing destination ends the run successfully with
\* the destination holding exactly the files of staging, directly and with
\* nothing of the old tree left.
C9_PromotionReplacesDestination ==
  [][ (pc = "promote" /\ dest.exists) =>
        /\ pc' = "done"
        /\ dest' = [exists |-> TRUE, files |-> temp.files, subs |-> {}] ]_vars

\* C10: a second run that follows a successful first run, and whose every
\* urlretrieve call is answered, succeeds too, and leaves in the destination
\* the data.json and assets the first run left.
C10_SecondRunSameCache ==
  ( /\ runNo = 2
    /\ prevOK
    /\ pc \in {"done", "failed"}
    /\ \A i \in 1..Len(log) : log[i].outcome = "ok" )
  => ( /\ pc = "done"
       /\ dest.files = destAtStart.files )

\* C11: when a run begins downloading (nothing fetched yet), staging holds no
\* file: nothing an earlier run left is in it.
C11_StagingFreshAtStart ==
  (pc = "loadJSON" /\ log = <<>>) => temp.files = {}

\* The files of the cache a successful run has just promoted: the destination
\* itself, or its entry "temp" when staging was moved into it.
Promoted ==
  IF HasSub(dest, "temp")
  THEN (CHOOSE d \in dest.subs : d.name = "temp").files
  ELSE dest.files

\* C12: after a successful run, every extracted URL's filename names a file
\* of the promoted cache that holds what was downloaded from a URL with that
\* filename, the URL whose last path segment is data.json included.
C12_CacheConsistentWithDataJson ==
  pc = "done" =>
    \A u \in ExtractedUrls :
      \E f \in Promoted :
        /\ f.name = Filename(u)
        /\ f.content.kind = "asset"
        /\ Filename(f.content.body) = Filename(u)

\* A document that opens a list and closes it, with every string closed.
Closed(doc) ==
  /\ Len(doc) >= 2
  /\ doc[1] = "["
  /\ doc[Len(doc)] = "]"
  /\ Cardinality({i \in 1..Len(doc) : doc[i] = "Q" /\ (i = 1 \/ doc[i - 1] # "\\")}) % 2 = 0

\* C13: an asset is fetched only after a manifest fetch has succeeded and the
\* manifest has parsed; a manifest cut off before its end fails the run in
\* loadJSON: only the manifest URL is ever fetched, staging's data.json is the
\* text as fetched (no rewritten text is saved) and the destination is what
\* the run found.
C13_NoAssetBeforeManifestParsed ==
  /\ (\E i \in 1..Len(log) : log[i].url # ApiUrl) =>
       /\ Closed(served)
       /\ \A i \in 1..Len(log) :
            log[i].url # ApiUrl =>
              \E j \in 1..(i - 1) : log[j].url = ApiUrl /\ log[j].outcome = "ok"
  /\ (~Closed(served) /\ runNo >= 1) =>
       /\ pc \in {"loadJSON", "failed"}
       /\ \A i \in 1..Len(log) : log[i].url = ApiUrl
       /\ \A f \in temp.files : f.content = [kind |-> "text", body |-> served]
       /\ dest = destAtStart

\* The run has fetched a manifest that is cut off and has failed on parsing it.
C13_Witness ==
  /\ ~Closed(served)
  /\ pc = "failed"
  /\ failure.kind = "JSONDecodeError"
  /\ LastLog.outcome = "ok"
  /\ \E f \in temp.files : f.name = DataJson

\* The rewritten manifest as a file of staging or of the cache.
RewrittenDataJson ==
  [name |-> DataJson,
   content |-> [kind |-> "text", body |-> ReplaceInOrder(OriginalText, urls)]]

\* C14: a step changes the destination only when the run stands at promotion:
\* the manifest fetch has succeeded, every extracted URL has been transferred,
\* the loop is over and staging's data.json holds the rewritten text (which,
\* when the manifest names a URL, is not the text as fetched); and a promotion
\* that succeeds puts that data.json into the cache.
C14_PromotionIsLastStep ==
  [][ dest' # dest =>
        /\ pc = "promote"
        /\ log[1].url = ApiUrl /\ log[1].outcome = "ok"
        /\ idx > Len(urls)
        /\ \A u \in ExtractedUrls : OkCount(u) >= 1
        /\ RewrittenDataJson \in temp.files
        /\ jsonString = RewrittenDataJson.content.body
        /\ urls # <<>> => RewrittenDataJson.content.body # served
        /\ pc' = "done" => RewrittenDataJson \in Promoted' ]_vars

\* A run whose manifest names assets has promoted its staging directory.
C14_Witness ==
  /\ pc = "done"
  /\ Len(urls) = MaxItems
  /\ dest # destAtStart
  /\ RewrittenDataJson \in Promoted

RECURSIVE LengthsOf(_)
\* The sum of the Content-Length headers of the successful transfers in l.
LengthsOf(l) ==
  IF l = <<>> THEN 0
  ELSE (IF Head(l).outcome = "ok" /\ Head(l).info # None THEN Head(l).info ELSE 0)
       + LengthsOf(Tail(l))

\* C15: numFiles is the number of this run's successful transfers (the
\* manifest included) and totalBytes the sum of the Content-Length headers
\* those transfers carried: a transfer without the header counts as a file and
\* adds no bytes, an attempt that failed adds to neither.
C15_CountersMatchTransfers ==
  /\ numFiles = Cardinality({i \in 1..Len(log) : log[i].outcome = "ok"})
  /\ totalBytes = LengthsOf(log)

\* One run has seen a transfer with the header, one without it and a failed
\* attempt.
C15_Witness ==
  /\ \E i \in 1..Len(log) : log[i].outcome = "ok" /\ log[i].info = None
  /\ \E i \in 1..Len(log) : log[i].outcome = "ok" /\ log[i].info # None
  /\ \E i \in 1..Len(log) : log[i].outcome = "URLError"
  /\ numFiles = 2
  /\ totalBytes > 0

\* The characters the grammar lists one by one: letters, digits and
\* $ - _ @ . & + ! * ( ) , %  (as tokens: x, y, data.json and the comma).
ListedChars == {"x", "y", "D", ","}
\* The characters of the character class: letters, digits, everything from
\* "$" to "_" in ASCII order (so also / : \ [ ] and the scheme's own
\* characters), and ! * ( ).
ClassChars == {"x", "y", "D", ",", "/", "\\", "[", "]", "H"}

\* Where the extractor's matches start for a class of continuation
\* characters: at a scheme followed by a character of the class and not
\* inside a match that started earlier.
MatchStarts(text, cls) ==
  {i \in 1..(Len(text) - 1) :
     /\ text[i] = "H"
     /\ text[i + 1] \in cls
     /\ ~\E h \in 1..(i - 1) :
           text[h] = "H" /\ \A k \in (h + 1)..i : text[k] \in cls}
\* The maximal run of class characters after the scheme at i.
MatchAt(text, cls, i) ==
  LET e == CHOOSE j \in (i + 1)..Len(text) :
             /\ \A k \in (i + 1)..j : text[k] \in cls
             /\ (j = Len(text) \/ text[j + 1] \notin cls)
  IN SubSeq(text, i, e)
\* m without its trailing backslashes (m starts with the scheme).
WithoutTrailingBackslashes(m) ==
  LET n == CHOOSE j \in 1..Len(m) :
             m[j] # "\\" /\ \A k \in (j + 1)..Len(m) : m[k] = "\\"
  IN SubSeq(m, 1, n)
\* The k-th match start from the left.
NthStart(text, cls, k) ==
  CHOOSE i \in MatchStarts(text, cls) :
    Cardinality({j \in MatchStarts(text, cls) : j < i}) = k - 1

\* The list the loop holds is, in the order of the text, the maximal runs
\* over the class cls, those the loop has passed without their trailing
\* backslashes.
ExtractsRunsOver(cls) ==
  pc = "urls" =>
    /\ Len(urls) = Cardinality(MatchStarts(jsonString, cls))
    /\ \A k \in 1..Len(urls) :
         LET m == MatchAt(jsonString, cls, NthStart(jsonString, cls, k))
         IN urls[k] = IF k < idx THEN WithoutTrailingBackslashes(m) ELSE m
    /\ \A k \in 1..Len(urls) : \A j \in 2..Len(urls[k]) : urls[k][j] \in cls

C17_SameNameLastWins ==
  (pc = "getFiles" /\ idx > Len(urls)) =>
    \A i, j \in 1..Len(urls) :
      LET u == RStrip(urls[i])
          v == RStrip(urls[j])
      IN ( /\ i < j
           /\ u # v
           /\ Filename(u) = Filename(v)
           /\ ~\E k \in (j + 1)..Len(urls) : Filename(RStrip(urls[k])) = Filename(v) )
         => /\ [name |-> Filename(v), content |-> [kind |-> "asset", body |-> v]]
                 \in temp.files
            /\ ~Occurs(jsonString, u)
            /\ ~Occurs(jsonString, v)
            /\ jsonString = RewrittenFrom(OriginalText, 1)

\* C18: no call of downloadProgress raises, and no progress line shows a
\* percentage outside 0..100.
C18_ProgressNeverFails ==
  /\ ~cb.raised
  /\ \A i \in 1..Len(cb.out) : cb.out[i].percent \in 0..100

\* C19 as stated: with totalsize = -1 no call writes a progress line, and
\* when the transfer has ended a completion message has been written.
C19_CompletionMessageOnly ==
  (cb.blocksize > 0 /\ cb.totalsize = -1) =>
    /\ \A i \in 1..Len(cb.out) : cb.out[i].kind # "progress"
    /\ cb.finished => \E i \in 1..Len(cb.out) : cb.out[i].kind = "finished"

\* C19, amended: with totalsize = -1 downloadProgress reports nothing at all:
\* no call raises, no call writes a progress line, and none writes a
\* completion message, also when the transfer has ended.
C19_SilentWithoutLength ==
  (cb.blocksize > 0 /\ cb.totalsize = -1) => (~cb.raised /\ cb.out = <<>>)

\* A transfer without a stated length has ended after the callback ran for
\* the start and for two blocks.
C19_Witness ==
  /\ cb.totalsize = -1
  /\ cb.blocksize > 0
  /\ cb.count = 3
  /\ cb.finished

\* dir with the prefix pre removed, and then a leading slash.
RelativeTo(dir, pre) ==
  LET rest == SubSeq(dir, Len(pre) + 1, Len(dir))
  IN IF rest # <<>> /\ Head(rest) = "/" THEN Tail(rest) ELSE rest
\* The path of the asset inside a directory given relative to staging.
FileIn(rel) == IF rel = <<>> THEN AssetName ELSE rel \o <<"/">> \o AssetName

\* C20: parseUrl raises for no URL and stores no asset outside staging; the
\* asset of a URL whose directory lies under the uploads path is staged at
\* that directory taken relative to the uploads path; and the reference left
\* in data.json is the staged path (with or without a leading slash).
C20_StagedPathMatchesReference ==
  /\ px.step \notin {"IndexError", "outside", "saved outside"}
  /\ (px.step \in {"staged", "saved"} /\ IsAt(px.dir, 1, UploadsPath)) =>
       px.staged = RelativeTo(px.dir, UploadsPath)
  /\ px.step = "saved" =>
       px.ref \in {FileIn(px.staged), <<"/">> \o FileIn(px.staged)}

====
